---- MODULE Spec2Model ----
(***************************************************************************)
(* State-machine model of the lpadlet backend (src/server.js, lines 1-494):*)
(* the process-wide collections, the socket.io connection handler and the  *)
(* event handlers it registers.  One action per handler; every handler     *)
(* runs to completion before the next event is taken (single-threaded      *)
(* event loop).                                                            *)
(*                                                                         *)
(* Conventions                                                             *)
(*  - An optional JavaScript value is a sequence: <<>> is undefined (the   *)
(*    field or payload is absent), <<v>> is the value v.                   *)
(*  - The content of a comment-memo payload is a tagged value: a string   *)
(*    is [type |-> "string", pre, core, post], its shape: the number of    *)
(*    leading whitespace characters, the length of the core that starts    *)
(*    and ends with a non-whitespace character (0 when the text is         *)
(*    whitespace only; the whitespace is then counted in pre) and the      *)
(*    number of trailing whitespace characters.  [type |-> "undefined"]    *)
(*    is the payload without a content, a value that is no string.         *)
(*  - Fields no handler ever reads (uuid of a like or comment, userName,   *)
(*    createdAt, color, image, board theme/description) are dropped        *)
(*    from the records.                                                    *)
(*  - outbox holds the emissions of the last handled event, in order, each *)
(*    with the set of sessions it is delivered to; saveLog holds the       *)
(*    writes saveData attempted in that event, in order.                   *)
(***************************************************************************)
EXTENDS Integers, Sequences, FiniteSets, TLC

VARIABLES
    connectedUsers,  \* keys of the connectedUsers Map (socket ids)
    adminUsers,      \* the adminUsers Set
    handshake,       \* open socket id -> socket.handshake.query.admin
    nextSocket,      \* number of connections accepted so far
    boards,          \* the boards array
    nextBoard,       \* number of board uuids drawn so far
    memos,           \* the memos array
    nextMemo,        \* number of memo uuids drawn so far
    likes,           \* the likes array
    comments,        \* the comments array
    likeDebounce,    \* the likeDebounce Map: key string -> timestamp
    now,             \* the value Date.now() returns
    disk,            \* contents of data/memos.json, likes.json, comments.json
    outbox,          \* emissions of the last handled event
    saveLog,         \* console lines of saveData in the last handled event:
                     \* the file of each write, and whether it succeeded
    raised,          \* a handler threw an error that nothing catches
    lastEvent,       \* history: the last handled event, its sender and payload
    events,          \* number of events handled so far
    accepted         \* history: <<userId, memoId>> -> time of the last like-memo
                     \* of that pair that passed the debounce check

vars == <<connectedUsers, adminUsers, handshake, nextSocket, boards, nextBoard,
          memos, nextMemo, likes, comments, likeDebounce, now, disk, outbox,
          saveLog, raised, lastEvent, events, accepted>>

(***************************************************************************)
(* Bounds of the model.                                                    *)
(***************************************************************************)
NumSessions == 2     \* connections accepted in one run
MaxMemos == 2        \* memos created in one run
MaxBoards == 1       \* boards created in one run (besides "default")
MaxTicks == 2        \* clock advances in one run
MaxEvents == 5       \* events handled in one run

(***************************************************************************)
(* Program constants.                                                      *)
(***************************************************************************)
LIKE_DEBOUNCE_TIME == 1000
MaxCommentLength == 500
CanvasWidth == 800
CanvasHeight == 600
ADMIN_TOKEN == "admin123"
DEFAULT_BOARD == "default"

(***************************************************************************)
(* Identifiers.  socket.id and uuidv4() are opaque strings that may hold   *)
(* the character '-'; every draw is fresh.                                 *)
(***************************************************************************)
SocketIdPool == <<"a", "a-b", "c", "c-d">>
MemoIdPool == <<"b-m", "m", "n", "d-n">>
BoardIdPool == <<"b1", "b2", "b3">>

StartTime == LIKE_DEBOUNCE_TIME
TickStep == LIKE_DEBOUNCE_TIME \div 2

(***************************************************************************)
(* JavaScript values.                                                      *)
(***************************************************************************)
Undefined == <<>>
TruthyNum(v) == v # Undefined /\ v[1] # 0
TruthyStr(v) == v # Undefined /\ v[1] # ""

\* a || b for an optional number / an optional string
OrNum(v, d) == IF TruthyNum(v) THEN v[1] ELSE d
OrStr(v, d) == IF TruthyStr(v) THEN v[1] ELSE d

\* a string value, by its shape
Str(pre, core, post) == [type |-> "string", pre |-> pre, core |-> core, post |-> post]

\* String.prototype.length and String.prototype.trim on a string value
StrLength(c) == c.pre + c.core + c.post
StrTrim(c) == Str(0, c.core, 0)

\* Array.prototype.findIndex / find over the indices that match: the first
\* one, 0 for -1 / undefined
FirstIndex(matching) ==
    IF matching = {} THEN 0
    ELSE CHOOSE i \in matching : \A j \in matching : i <= j

\* memos.find(m => m.id === id), as an index
MemoIndex(ms, id) == FirstIndex({i \in 1..Len(ms) : ms[i].id = id})

\* Array.prototype.splice(i, 1)
Splice1(seq, i) == [j \in 1..(Len(seq) - 1) |-> IF j < i THEN seq[j] ELSE seq[j + 1]]

\* Map.prototype.set
MapSet(map, k, v) == [j \in DOMAIN map \cup {k} |-> IF j = k THEN v ELSE map[j]]

EmptyMap == [k \in {} |-> 0]

(***************************************************************************)
(* Emissions: socket.emit (the sender), io.emit (every connected socket),  *)
(* socket.broadcast.emit (every connected socket but the sender).          *)
(***************************************************************************)
Emit(to, ev, arg) == [to |-> to, ev |-> ev, arg |-> arg]

\* An inbound event: its name, the socket it arrived on and its payload.
Received(type, from, arg) == [type |-> type, from |-> from, arg |-> arg]

(***************************************************************************)
(* saveData: writes the file; a failed write is caught and logged and      *)
(* leaves the file as it was.                                              *)
(***************************************************************************)
\* a save that is attempted again until the write succeeds
SaveDataRetried(d, file, data, ok) == [d EXCEPT ![file] = data]

SaveData(d, file, data, ok) == IF ok THEN [d EXCEPT ![file] = data] ELSE d

AllSaved == [memos |-> TRUE, likes |-> TRUE, comments |-> TRUE]

\* the console lines of saveData for the files written, in order: console.log
\* after a write that succeeded, console.error after one that threw
SaveLog(files, sv) == [i \in 1..Len(files) |-> [file |-> files[i], ok |-> sv[files[i]]]]

NoSave == <<>>

(***************************************************************************)
(* Initial state: the module-level declarations, with no data files.      *)
(***************************************************************************)
Init ==
    /\ connectedUsers = {}
    /\ adminUsers = {}
    /\ handshake = EmptyMap
    /\ nextSocket = 0
    /\ boards = <<[id |-> DEFAULT_BOARD, name |-> <<"main">>, createdBy |-> "system",
                   isPublic |-> TRUE]>>
    /\ nextBoard = 0
    /\ memos = <<>>
    /\ nextMemo = 0
    /\ likes = <<>>
    /\ comments = <<>>
    /\ likeDebounce = EmptyMap
    /\ now = StartTime
    /\ disk = [memos |-> <<>>, likes |-> <<>>, comments |-> <<>>]
    /\ outbox = <<>>
    /\ saveLog = NoSave
    /\ raised = FALSE
    /\ lastEvent = Received("none", "system", Undefined)
    /\ events = 0
    /\ accepted = EmptyMap

\* The passage of time between two events.
Tick ==
    /\ (now - StartTime) \div TickStep < MaxTicks
    /\ now' = now + TickStep
    /\ UNCHANGED <<connectedUsers, adminUsers, handshake, nextSocket, boards,
                   nextBoard, memos, nextMemo, likes, comments, likeDebounce,
                   disk, outbox, saveLog, raised, lastEvent, events, accepted>>

(***************************************************************************)
(* io.on('connection')                                                     *)
(***************************************************************************)
\* any credential at all grants the capability
IsAdminCredentialAny(cred) == cred # Undefined

IsAdminCredential(cred) == cred = <<ADMIN_TOKEN>>

Connect(cred) ==
    /\ nextSocket < NumSessions
    /\ LET s == SocketIdPool[nextSocket + 1]
           users == connectedUsers \cup {s}
           isAdmin == IsAdminCredential(cred)
       IN /\ connectedUsers' = users
          /\ handshake' = MapSet(handshake, s, cred)
          /\ adminUsers' = IF isAdmin THEN adminUsers \cup {s} ELSE adminUsers
          /\ outbox' = << Emit({s}, "all-memos", memos),
                          Emit(users, "user-count", Cardinality(users)),
                          Emit({s}, "all-boards", boards),
                          Emit({s}, "user-info", [id |-> s, isAdmin |-> isAdmin]) >>
    /\ lastEvent' = Received("connect", SocketIdPool[nextSocket + 1], cred)
    /\ raised' = FALSE
    /\ saveLog' = NoSave
    /\ nextSocket' = nextSocket + 1
    /\ UNCHANGED <<boards, nextBoard, memos, nextMemo, likes, comments,
                   likeDebounce, now, disk, accepted>>

(***************************************************************************)
(* socket.on('disconnect')                                                 *)
(***************************************************************************)
\* the handler with the broadcasts issued before the registry is changed
DisconnectBroadcastFirst(s) ==
    /\ s \in connectedUsers
    /\ lastEvent' = Received("disconnect", s, Undefined)
    /\ raised' = FALSE
    /\ saveLog' = NoSave
    /\ outbox' = << Emit(connectedUsers \ {s}, "user-count", Cardinality(connectedUsers)),
                    Emit(connectedUsers \ {s}, "user-disconnected", s) >>
    /\ adminUsers' = adminUsers \ {s}
    /\ connectedUsers' = connectedUsers \ {s}
    /\ handshake' = [u \in DOMAIN handshake \ {s} |-> handshake[u]]
    /\ UNCHANGED <<nextSocket, boards, nextBoard, memos, nextMemo, likes, comments,
                   likeDebounce, now, disk, accepted>>

Disconnect(s) ==
    /\ s \in connectedUsers
    /\ lastEvent' = Received("disconnect", s, Undefined)
    /\ raised' = FALSE
    /\ saveLog' = NoSave
    /\ adminUsers' = adminUsers \ {s}
    /\ connectedUsers' = connectedUsers \ {s}
    /\ handshake' = [u \in DOMAIN handshake \ {s} |-> handshake[u]]
    /\ outbox' = << Emit(connectedUsers', "user-count", Cardinality(connectedUsers')),
                    Emit(connectedUsers', "user-disconnected", s) >>
    /\ UNCHANGED <<nextSocket, boards, nextBoard, memos, nextMemo, likes, comments,
                   likeDebounce, now, disk, accepted>>

(***************************************************************************)
(* socket.on('create-memo')                                                *)
(* rx, ry are the values of Math.random() * 800 and Math.random() * 600.   *)
(***************************************************************************)
\* the default position drawn from a canvas twice as wide and as high
NewMemoWideCanvas(s, id, data, rx, ry) ==
    [id |-> id,
     content |-> data.content,
     x |-> OrNum(data.x, rx * 2),
     y |-> OrNum(data.y, ry * 2),
     boardId |-> OrStr(data.boardId, DEFAULT_BOARD),
     createdBy |-> s]

NewMemo(s, id, data, rx, ry) ==
    [id |-> id,
     content |-> data.content,
     x |-> OrNum(data.x, rx),
     y |-> OrNum(data.y, ry),
     boardId |-> OrStr(data.boardId, DEFAULT_BOARD),
     createdBy |-> s]

CreateMemo(s, data, rx, ry, sv) ==
    /\ s \in connectedUsers
    /\ lastEvent' = Received("create-memo", s, data)
    /\ raised' = FALSE
    /\ nextMemo < MaxMemos
    /\ LET newMemo == NewMemo(s, MemoIdPool[nextMemo + 1], data, rx, ry)
       IN /\ memos' = Append(memos, newMemo)
          /\ disk' = SaveData(disk, "memos", memos', sv.memos)
          /\ saveLog' = SaveLog(<<"memos">>, sv)
          /\ outbox' = << Emit(connectedUsers, "new-memo", newMemo) >>
    /\ nextMemo' = nextMemo + 1
    /\ UNCHANGED <<connectedUsers, adminUsers, handshake, nextSocket, boards,
                   nextBoard, likes, comments, likeDebounce, now, accepted>>

(***************************************************************************)
(* The cascade filters of delete-memo, admin-delete-memo, delete-board and *)
(* admin-clear-all-memos.                                                  *)
(***************************************************************************)
\* memos.filter(m => m.id !== memoId)
MemosWithoutId(ms, memoId) == SelectSeq(ms, LAMBDA m : m.id # memoId)

\* xs.filter(x => x.memoId !== memoId), for likes and comments
WithoutMemo(xs, memoId) == SelectSeq(xs, LAMBDA x : x.memoId # memoId)

\* the id list computed from the memos array after it was filtered
BoardMemoIdsAfterFilter(ms, boardId) ==
    LET left == SelectSeq(ms, LAMBDA m : m.boardId # boardId)
    IN {left[i].id : i \in {j \in 1..Len(left) : left[j].boardId = boardId}}

\* memos.filter(m => m.boardId === boardId).map(m => m.id)
BoardMemoIds(ms, boardId) == {ms[i].id : i \in {j \in 1..Len(ms) : ms[j].boardId = boardId}}

\* a filter that keeps no memo at all
MemosWithoutBoardNone(ms, boardId) == SelectSeq(ms, LAMBDA m : FALSE)

\* memos.filter(m => m.boardId !== boardId)
MemosWithoutBoard(ms, boardId) == SelectSeq(ms, LAMBDA m : m.boardId # boardId)

\* xs.filter(x => !boardMemoIds.includes(x.memoId)), for likes and comments
WithoutMemos(xs, ids) == SelectSeq(xs, LAMBDA x : x.memoId \notin ids)

\* boards.filter(b => b.id !== boardId)
BoardsWithoutId(bs, boardId) == SelectSeq(bs, LAMBDA b : b.id # boardId)

\* the notice sent with io.emit instead of socket.emit
PermissionErrorToAll(s) == << Emit(connectedUsers, "error", "permission") >>

PermissionError(s) == << Emit({s}, "error", "permission") >>

(***************************************************************************)
(* socket.on('delete-memo')                                                *)
(***************************************************************************)
DeleteMemo(s, memoId, sv) ==
    /\ s \in connectedUsers
    /\ lastEvent' = Received("delete-memo", s, memoId)
    /\ raised' = FALSE
    /\ memos' = MemosWithoutId(memos, memoId)
    /\ likes' = WithoutMemo(likes, memoId)
    /\ comments' = WithoutMemo(comments, memoId)
    /\ disk' = SaveData(SaveData(SaveData(disk, "memos", memos', sv.memos),
                                 "likes", likes', sv.likes),
                        "comments", comments', sv.comments)
    /\ saveLog' = SaveLog(<<"memos", "likes", "comments">>, sv)
    /\ outbox' = << Emit(connectedUsers, "memo-deleted", memoId) >>
    /\ UNCHANGED <<connectedUsers, adminUsers, handshake, nextSocket, boards,
                   nextBoard, nextMemo, likeDebounce, now, accepted>>

(***************************************************************************)
(* socket.on('update-memo-position') and socket.on('update-memo-content')  *)
(***************************************************************************)
\* the handler with the update sent with io.emit instead of
\* socket.broadcast.emit
UpdateMemoPositionToAll(s, id, x, y) ==
    /\ s \in connectedUsers
    /\ lastEvent' = Received("update-memo-position", s, [id |-> id, x |-> x, y |-> y])
    /\ raised' = FALSE
    /\ saveLog' = NoSave
    /\ LET i == MemoIndex(memos, id)
       IN IF i # 0
          THEN /\ memos' = [memos EXCEPT ![i] = [memos[i] EXCEPT !.x = x, !.y = y]]
               /\ outbox' = << Emit(connectedUsers, "memo-position-updated",
                                    [id |-> id, x |-> x, y |-> y]) >>
          ELSE /\ memos' = memos
               /\ outbox' = <<>>
    /\ UNCHANGED <<connectedUsers, adminUsers, handshake, nextSocket, boards,
                   nextBoard, nextMemo, likes, comments, likeDebounce, now, disk,
                   accepted>>

UpdateMemoPosition(s, id, x, y) ==
    /\ s \in connectedUsers
    /\ lastEvent' = Received("update-memo-position", s, [id |-> id, x |-> x, y |-> y])
    /\ raised' = FALSE
    /\ saveLog' = NoSave
    /\ LET i == MemoIndex(memos, id)
       IN IF i # 0
          THEN /\ memos' = [memos EXCEPT ![i] = [memos[i] EXCEPT !.x = x, !.y = y]]
               /\ outbox' = << Emit(connectedUsers \ {s}, "memo-position-updated",
                                    [id |-> id, x |-> x, y |-> y]) >>
          ELSE /\ memos' = memos
               /\ outbox' = <<>>
    /\ UNCHANGED <<connectedUsers, adminUsers, handshake, nextSocket, boards,
                   nextBoard, nextMemo, likes, comments, likeDebounce, now, disk,
                   accepted>>

UpdateMemoContent(s, id, content) ==
    /\ s \in connectedUsers
    /\ lastEvent' = Received("update-memo-content", s, [id |-> id, content |-> content])
    /\ raised' = FALSE
    /\ saveLog' = NoSave
    /\ LET i == MemoIndex(memos, id)
       IN IF i # 0
          THEN /\ memos' = [memos EXCEPT ![i] = [memos[i] EXCEPT !.content = content]]
               /\ outbox' = << Emit(connectedUsers \ {s}, "memo-content-updated",
                                    [id |-> id, content |-> content]) >>
          ELSE /\ memos' = memos
               /\ outbox' = <<>>
    /\ UNCHANGED <<connectedUsers, adminUsers, handshake, nextSocket, boards,
                   nextBoard, nextMemo, likes, comments, likeDebounce, now, disk,
                   accepted>>

(***************************************************************************)
(* socket.on('cursor-move')                                                *)
(***************************************************************************)
CursorMove(s, x, y) ==
    /\ s \in connectedUsers
    /\ lastEvent' = Received("cursor-move", s, [x |-> x, y |-> y])
    /\ raised' = FALSE
    /\ saveLog' = NoSave
    /\ outbox' = << Emit(connectedUsers \ {s}, "user-cursor",
                         [userId |-> s, x |-> x, y |-> y]) >>
    /\ UNCHANGED <<connectedUsers, adminUsers, handshake, nextSocket, boards,
                   nextBoard, memos, nextMemo, likes, comments, likeDebounce, now,
                   disk, accepted>>

(***************************************************************************)
(* socket.on('create-board')                                               *)
(***************************************************************************)
NewBoard(s, id, data) ==
    [id |-> id, name |-> data.name, createdBy |-> s,
     isPublic |-> (data.isPublic # <<FALSE>>)]

CreateBoard(s, data) ==
    /\ s \in connectedUsers
    /\ lastEvent' = Received("create-board", s, data)
    /\ raised' = FALSE
    /\ saveLog' = NoSave
    /\ IF s \in adminUsers
       THEN /\ nextBoard < MaxBoards
            /\ LET newBoard == NewBoard(s, BoardIdPool[nextBoard + 1], data)
               IN /\ boards' = Append(boards, newBoard)
                  /\ outbox' = << Emit(connectedUsers, "board-created", newBoard) >>
            /\ nextBoard' = nextBoard + 1
       ELSE /\ outbox' = PermissionError(s)
            /\ UNCHANGED <<boards, nextBoard>>
    /\ UNCHANGED <<connectedUsers, adminUsers, handshake, nextSocket, memos,
                   nextMemo, likes, comments, likeDebounce, now, disk, accepted>>

(***************************************************************************)
(* socket.on('delete-board')                                               *)
(***************************************************************************)
\* the guard without the test for the default board
MayDeleteBoardAdminOnly(s, boardId) == s \in adminUsers

MayDeleteBoard(s, boardId) == s \in adminUsers /\ boardId # DEFAULT_BOARD

DeleteBoard(s, boardId) ==
    /\ s \in connectedUsers
    /\ lastEvent' = Received("delete-board", s, boardId)
    /\ raised' = FALSE
    /\ saveLog' = NoSave
    /\ IF MayDeleteBoard(s, boardId)
       THEN LET boardMemoIds == BoardMemoIds(memos, boardId)
            IN /\ boards' = BoardsWithoutId(boards, boardId)
               /\ memos' = MemosWithoutBoard(memos, boardId)
               /\ likes' = WithoutMemos(likes, boardMemoIds)
               /\ comments' = WithoutMemos(comments, boardMemoIds)
               /\ outbox' = << Emit(connectedUsers, "board-deleted", boardId) >>
       ELSE /\ outbox' = PermissionError(s)
            /\ UNCHANGED <<boards, memos, likes, comments>>
    /\ UNCHANGED <<connectedUsers, adminUsers, handshake, nextSocket, nextBoard,
                   nextMemo, likeDebounce, now, disk, accepted>>

(***************************************************************************)
(* socket.on('admin-delete-memo')                                          *)
(***************************************************************************)
AdminDeleteMemo(s, memoId, sv) ==
    /\ s \in connectedUsers
    /\ lastEvent' = Received("admin-delete-memo", s, memoId)
    /\ raised' = FALSE
    /\ IF s \in adminUsers
       THEN /\ memos' = MemosWithoutId(memos, memoId)
            /\ likes' = WithoutMemo(likes, memoId)
            /\ comments' = WithoutMemo(comments, memoId)
            /\ disk' = SaveData(SaveData(SaveData(disk, "memos", memos', sv.memos),
                                         "likes", likes', sv.likes),
                                "comments", comments', sv.comments)
            /\ saveLog' = SaveLog(<<"memos", "likes", "comments">>, sv)
            /\ outbox' = << Emit(connectedUsers, "memo-deleted", memoId) >>
       ELSE /\ outbox' = PermissionError(s)
            /\ saveLog' = NoSave
            /\ UNCHANGED <<memos, likes, comments, disk>>
    /\ UNCHANGED <<connectedUsers, adminUsers, handshake, nextSocket, boards,
                   nextBoard, nextMemo, likeDebounce, now, accepted>>

(***************************************************************************)
(* socket.on('admin-clear-all-memos'); boardId is an optional string       *)
(***************************************************************************)
\* the handler with a clear-all branch that forgets the likes
AdminClearAllMemosKeepsLikes(s, boardId, sv) ==
    /\ s \in connectedUsers
    /\ lastEvent' = Received("admin-clear-all-memos", s, boardId)
    /\ raised' = FALSE
    /\ IF s \in adminUsers
       THEN /\ IF TruthyStr(boardId)
               THEN LET boardMemoIds == BoardMemoIds(memos, boardId[1])
                    IN /\ memos' = MemosWithoutBoard(memos, boardId[1])
                       /\ likes' = WithoutMemos(likes, boardMemoIds)
                       /\ comments' = WithoutMemos(comments, boardMemoIds)
               ELSE /\ memos' = <<>>
                    /\ likes' = likes
                    /\ comments' = <<>>
            /\ disk' = SaveData(SaveData(SaveData(disk, "memos", memos', sv.memos),
                                         "likes", likes', sv.likes),
                                "comments", comments', sv.comments)
            /\ saveLog' = SaveLog(<<"memos", "likes", "comments">>, sv)
            /\ outbox' = << Emit(connectedUsers, "all-memos", memos') >>
       ELSE /\ outbox' = PermissionError(s)
            /\ saveLog' = NoSave
            /\ UNCHANGED <<memos, likes, comments, disk>>
    /\ UNCHANGED <<connectedUsers, adminUsers, handshake, nextSocket, boards,
                   nextBoard, nextMemo, likeDebounce, now, accepted>>

AdminClearAllMemos(s, boardId, sv) ==
    /\ s \in connectedUsers
    /\ lastEvent' = Received("admin-clear-all-memos", s, boardId)
    /\ raised' = FALSE
    /\ IF s \in adminUsers
       THEN /\ IF TruthyStr(boardId)
               THEN LET boardMemoIds == BoardMemoIds(memos, boardId[1])
                    IN /\ memos' = MemosWithoutBoard(memos, boardId[1])
                       /\ likes' = WithoutMemos(likes, boardMemoIds)
                       /\ comments' = WithoutMemos(comments, boardMemoIds)
               ELSE /\ memos' = <<>>
                    /\ likes' = <<>>
                    /\ comments' = <<>>
            /\ disk' = SaveData(SaveData(SaveData(disk, "memos", memos', sv.memos),
                                         "likes", likes', sv.likes),
                                "comments", comments', sv.comments)
            /\ saveLog' = SaveLog(<<"memos", "likes", "comments">>, sv)
            /\ outbox' = << Emit(connectedUsers, "all-memos", memos') >>
       ELSE /\ outbox' = PermissionError(s)
            /\ saveLog' = NoSave
            /\ UNCHANGED <<memos, likes, comments, disk>>
    /\ UNCHANGED <<connectedUsers, adminUsers, handshake, nextSocket, boards,
                   nextBoard, nextMemo, likeDebounce, now, accepted>>

(***************************************************************************)
(* socket.on('switch-board'), 'get-memo-likes', 'get-memo-comments'        *)
(***************************************************************************)
SwitchBoard(s, boardId) ==
    /\ s \in connectedUsers
    /\ lastEvent' = Received("switch-board", s, boardId)
    /\ raised' = FALSE
    /\ saveLog' = NoSave
    /\ outbox' = << Emit({s}, "all-memos",
                         SelectSeq(memos, LAMBDA m : m.boardId = boardId)) >>
    /\ UNCHANGED <<connectedUsers, adminUsers, handshake, nextSocket, boards,
                   nextBoard, memos, nextMemo, likes, comments, likeDebounce, now,
                   disk, accepted>>

\* the whole array instead of the entries of the memo
OfMemoUnfiltered(xs, memoId) == xs

\* xs.filter(x => x.memoId === memoId), for likes and comments
OfMemo(xs, memoId) == SelectSeq(xs, LAMBDA x : x.memoId = memoId)

GetMemoLikes(s, memoId) ==
    /\ s \in connectedUsers
    /\ lastEvent' = Received("get-memo-likes", s, memoId)
    /\ raised' = FALSE
    /\ saveLog' = NoSave
    /\ outbox' = << Emit({s}, "memo-likes",
                         [memoId |-> memoId, list |-> OfMemo(likes, memoId)]) >>
    /\ UNCHANGED <<connectedUsers, adminUsers, handshake, nextSocket, boards,
                   nextBoard, memos, nextMemo, likes, comments, likeDebounce, now,
                   disk, accepted>>

GetMemoComments(s, memoId) ==
    /\ s \in connectedUsers
    /\ lastEvent' = Received("get-memo-comments", s, memoId)
    /\ raised' = FALSE
    /\ saveLog' = NoSave
    /\ outbox' = << Emit({s}, "memo-comments",
                         [memoId |-> memoId, list |-> OfMemo(comments, memoId)]) >>
    /\ UNCHANGED <<connectedUsers, adminUsers, handshake, nextSocket, boards,
                   nextBoard, memos, nextMemo, likes, comments, likeDebounce, now,
                   disk, accepted>>

(***************************************************************************)
(* socket.on('like-memo')                                                  *)
(***************************************************************************)
\* `${userId}-${memoId}`
DebounceKey(userId, memoId) == userId \o "-" \o memoId

\* lastLikeTime && (now - lastLikeTime) < LIKE_DEBOUNCE_TIME
Debounced(map, key, t) ==
    /\ key \in DOMAIN map
    /\ map[key] # 0
    /\ t - map[key] < LIKE_DEBOUNCE_TIME

\* likes.findIndex(like => like.memoId === memoId && like.userId === userId)
ExistingLikeIndex(ls, memoId, userId) ==
    FirstIndex({i \in 1..Len(ls) : ls[i].memoId = memoId /\ ls[i].userId = userId})

\* a toggle that never looks for the existing Like
ToggleLikeAlwaysAdd(ls, memoId, userId) ==
    Append(ls, [memoId |-> memoId, userId |-> userId])

\* a toggle whose removal takes every Like of the memo with it
ToggleLikeClearsMemo(ls, memoId, userId) ==
    LET i == ExistingLikeIndex(ls, memoId, userId)
    IN IF i # 0 THEN SelectSeq(ls, LAMBDA l : l.memoId # memoId)
       ELSE Append(ls, [memoId |-> memoId, userId |-> userId])

\* the likes array after the toggle
ToggleLike(ls, memoId, userId) ==
    LET i == ExistingLikeIndex(ls, memoId, userId)
    IN IF i # 0 THEN Splice1(ls, i)
       ELSE Append(ls, [memoId |-> memoId, userId |-> userId])

LikeMemo(s, memoId, sv) ==
    /\ s \in connectedUsers
    /\ lastEvent' = Received("like-memo", s, memoId)
    /\ raised' = FALSE
    /\ LET key == DebounceKey(s, memoId)
           i == ExistingLikeIndex(likes, memoId, s)
       IN IF Debounced(likeDebounce, key, now)
          THEN /\ outbox' = <<>>
               /\ saveLog' = NoSave
               /\ UNCHANGED <<likes, likeDebounce, disk, accepted>>
          ELSE /\ likes' = ToggleLike(likes, memoId, s)
               /\ likeDebounce' = MapSet(likeDebounce, key, now)
               /\ accepted' = MapSet(accepted, <<s, memoId>>, now)
               /\ disk' = SaveData(disk, "likes", likes', sv.likes)
               /\ saveLog' = SaveLog(<<"likes">>, sv)
               /\ outbox' =
                    (IF i = 0
                     THEN << Emit(connectedUsers, "new-like",
                                  [memoId |-> memoId, userId |-> s]) >>
                     ELSE <<>>)
                    \o << Emit(connectedUsers, "memo-likes",
                               [memoId |-> memoId, list |-> OfMemo(likes', memoId)]) >>
    /\ UNCHANGED <<connectedUsers, adminUsers, handshake, nextSocket, boards,
                   nextBoard, memos, nextMemo, comments, now>>

(***************************************************************************)
(* socket.on('comment-memo')                                               *)
(***************************************************************************)
\* !content || typeof content !== 'string' || content.trim().length === 0
ContentEmpty(c) ==
    \/ c.type # "string"
    \/ StrLength(c) = 0
    \/ StrLength(StrTrim(c)) = 0

\* the limit off by one, and the limit applied to the trimmed text
ContentTooLongOffByOne(c) == StrLength(c) >= MaxCommentLength
ContentTooLongTrimmed(c) == StrLength(StrTrim(c)) > MaxCommentLength

\* content.length > 500
ContentTooLong(c) == StrLength(c) > MaxCommentLength

ValidationError(s, why) == << Emit({s}, "error", why) >>

CommentMemo(s, data, sv) ==
    /\ s \in connectedUsers
    /\ lastEvent' = Received("comment-memo", s, data)
    /\ raised' = FALSE
    /\ IF ContentEmpty(data.content)
       THEN /\ outbox' = ValidationError(s, "empty")
            /\ saveLog' = NoSave
            /\ UNCHANGED <<comments, disk>>
       ELSE IF ContentTooLong(data.content)
       THEN /\ outbox' = ValidationError(s, "too long")
            /\ saveLog' = NoSave
            /\ UNCHANGED <<comments, disk>>
       ELSE LET newComment == [memoId |-> data.memoId, userId |-> s,
                               content |-> StrTrim(data.content)]
            IN /\ comments' = Append(comments, newComment)
               /\ disk' = SaveData(disk, "comments", comments', sv.comments)
               /\ saveLog' = SaveLog(<<"comments">>, sv)
               /\ outbox' = << Emit(connectedUsers, "new-comment", newComment),
                               Emit(connectedUsers, "memo-comments",
                                    [memoId |-> data.memoId,
                                     list |-> OfMemo(comments', data.memoId)]) >>
    /\ UNCHANGED <<connectedUsers, adminUsers, handshake, nextSocket, boards,
                   nextBoard, memos, nextMemo, likes, likeDebounce, now, accepted>>

(***************************************************************************)
(* An event that arrives without a payload.  create-memo, cursor-move and  *)
(* (for an administrator) create-board read a property of the payload,     *)
(* update-memo-position, update-memo-content and comment-memo destructure  *)
(* it, as the first thing they do: on undefined that throws a TypeError,   *)
(* which no handler catches.  Nothing was changed or emitted before it.    *)
(***************************************************************************)
DereferencingEvents == {"create-memo", "update-memo-position", "update-memo-content",
                        "cursor-move", "comment-memo", "create-board"}

DereferencesPayload(s, type) ==
    /\ type \in DereferencingEvents
    /\ type = "create-board" => s \in adminUsers

HandlerThrows(s, type) ==
    /\ s \in connectedUsers
    /\ DereferencesPayload(s, type)
    /\ lastEvent' = Received(type, s, Undefined)
    /\ raised' = TRUE
    /\ outbox' = <<>>
    /\ saveLog' = NoSave
    /\ UNCHANGED <<connectedUsers, adminUsers, handshake, nextSocket, boards,
                   nextBoard, memos, nextMemo, likes, comments, likeDebounce, now,
                   disk, accepted>>

(***************************************************************************)
(* Inputs.                                                                 *)
(***************************************************************************)
\* query parameter admin of the connection request
Credentials == {<<ADMIN_TOKEN>>, <<"guest">>}

\* memo ids a client may send: ids of memos that exist, existed or never did
MemoIds == {MemoIdPool[i] : i \in 1..MaxMemos}

\* board ids a client may send
BoardIds == {DEFAULT_BOARD} \cup {BoardIdPool[i] : i \in 1..MaxBoards}

\* create-memo payloads: the board is omitted or named, the position omitted
MemoData == [content : {<<"hi">>}, x : {Undefined}, y : {Undefined},
             boardId : {Undefined} \cup {<<b>> : b \in BoardIds}]

BoardData == [name : {<<"X">>}, isPublic : {Undefined}]

\* comment-memo contents: no string, blank, at and around the length limit
Contents == {[type |-> "undefined"], Str(0, 0, 0), Str(1, 0, 0), Str(0, 1, 0),
             Str(1, MaxCommentLength - 1, 0), Str(0, MaxCommentLength, 0),
             Str(1, MaxCommentLength, 0), Str(0, MaxCommentLength + 1, 0)}

CommentData == [memoId : MemoIds, content : Contents]

\* the contents the full server specification draws: one accepted, one rejected
PlainContents == {Str(0, 1, 0), Str(0, 0, 0)}

PlainCommentData == [memoId : MemoIds, content : PlainContents]

(***************************************************************************)
(* The server: any connected session sends any event at any time.          *)
(***************************************************************************)
Handle ==
    \/ \E cred \in Credentials : Connect(cred)
    \/ \E s \in connectedUsers : Disconnect(s)
    \/ \E s \in connectedUsers, data \in MemoData : CreateMemo(s, data, 0, 0, AllSaved)
    \/ \E s \in connectedUsers, id \in MemoIds : DeleteMemo(s, id, AllSaved)
    \/ \E s \in connectedUsers, data \in BoardData : CreateBoard(s, data)
    \/ \E s \in connectedUsers, b \in BoardIds : DeleteBoard(s, b)
    \/ \E s \in connectedUsers, id \in MemoIds : AdminDeleteMemo(s, id, AllSaved)
    \/ \E s \in connectedUsers, b \in {Undefined} \cup {<<c>> : c \in BoardIds} :
          AdminClearAllMemos(s, b, AllSaved)
    \/ \E s \in connectedUsers, id \in MemoIds : LikeMemo(s, id, AllSaved)
    \/ \E s \in connectedUsers, data \in PlainCommentData :
          CommentMemo(s, data, AllSaved)

\* One event is taken off the wire and handled to completion.
Event ==
    /\ events < MaxEvents
    /\ events' = events + 1
    /\ Handle

Next == Event

Spec == Init /\ [][Next]_vars

(***************************************************************************)
(* The reaction path with the clock running: the events that touch the     *)
(* likes array, and the passage of time between them.                      *)
(***************************************************************************)
HandleLike ==
    \/ \E cred \in Credentials : Connect(cred)
    \/ \E s \in connectedUsers : Disconnect(s)
    \/ \E s \in connectedUsers : CreateMemo(s, [content |-> <<"hi">>, x |-> Undefined,
                                     y |-> Undefined, boardId |-> Undefined],
                                    0, 0, AllSaved)
    \/ \E s \in connectedUsers, id \in MemoIds : DeleteMemo(s, id, AllSaved)
    \/ \E s \in connectedUsers, b \in BoardIds : DeleteBoard(s, b)
    \/ \E s \in connectedUsers, id \in MemoIds : AdminDeleteMemo(s, id, AllSaved)
    \/ \E s \in connectedUsers, b \in {Undefined} \cup {<<c>> : c \in BoardIds} :
          AdminClearAllMemos(s, b, AllSaved)
    \/ \E s \in connectedUsers, id \in MemoIds : LikeMemo(s, id, AllSaved)

LikeEvent ==
    /\ events < MaxEvents
    /\ events' = events + 1
    /\ HandleLike

NextLike == Tick \/ LikeEvent

SpecLike == Init /\ [][NextLike]_vars

(***************************************************************************)
(* The comment path: the events that touch the comments array, with        *)
(* contents at and around the limits of the validation.                    *)
(***************************************************************************)
HandleComment ==
    \/ \E cred \in Credentials : Connect(cred)
    \/ \E s \in connectedUsers : Disconnect(s)
    \/ \E s \in connectedUsers : CreateMemo(s, [content |-> <<"hi">>, x |-> Undefined,
                                     y |-> Undefined, boardId |-> Undefined],
                                    0, 0, AllSaved)
    \/ \E s \in connectedUsers, id \in MemoIds : DeleteMemo(s, id, AllSaved)
    \/ \E s \in connectedUsers, data \in CommentData : CommentMemo(s, data, AllSaved)

CommentEvent ==
    /\ events < MaxEvents
    /\ events' = events + 1
    /\ HandleComment

NextComment == CommentEvent

SpecComment == Init /\ [][NextComment]_vars

(***************************************************************************)
(* The memo path: creation with and without a position, the in-place       *)
(* updates, reactions to memos that exist or not, and events that arrive   *)
(* without a payload.  An uncaught error ends the process.                 *)
(***************************************************************************)
\* create-memo payloads without a board: no field at all, no position, a
\* position
MemoPayloads ==
    {[content |-> Undefined, x |-> Undefined, y |-> Undefined, boardId |-> Undefined],
     [content |-> <<"hi">>, x |-> Undefined, y |-> Undefined, boardId |-> Undefined],
     [content |-> <<"hi">>, x |-> <<0>>, y |-> <<5>>, boardId |-> Undefined]}

\* values of Math.random() * 800 and Math.random() * 600: the ends of the ranges
Randoms == {<<0, CanvasHeight - 1>>, <<CanvasWidth - 1, 0>>}

Positions == {<<7, 7>>}

HandleMemo ==
    \/ \E cred \in Credentials : Connect(cred)
    \/ \E s \in connectedUsers : Disconnect(s)
    \/ \E s \in connectedUsers, data \in MemoPayloads, r \in Randoms :
          CreateMemo(s, data, r[1], r[2], AllSaved)
    \/ \E s \in connectedUsers, id \in MemoIds, p \in Positions :
          UpdateMemoPosition(s, id, p[1], p[2])
    \/ \E s \in connectedUsers, id \in MemoIds : UpdateMemoContent(s, id, <<"edited">>)
    \/ \E s \in connectedUsers, id \in MemoIds : DeleteMemo(s, id, AllSaved)
    \/ \E s \in connectedUsers, id \in MemoIds : LikeMemo(s, id, AllSaved)
    \/ \E s \in connectedUsers, id \in MemoIds :
          CommentMemo(s, [memoId |-> id, content |-> Str(0, 1, 0)], AllSaved)
    \/ \E s \in connectedUsers, type \in DereferencingEvents : HandlerThrows(s, type)

MemoEvent ==
    /\ ~raised
    /\ events < MaxEvents
    /\ events' = events + 1
    /\ HandleMemo

NextMemo == MemoEvent

SpecMemo == Init /\ [][NextMemo]_vars

(***************************************************************************)
(* The persistence path: every write of saveData succeeds or fails.        *)
(***************************************************************************)
SaveOutcomes == [memos : BOOLEAN, likes : BOOLEAN, comments : BOOLEAN]

NoneSaved == [memos |-> FALSE, likes |-> FALSE, comments |-> FALSE]

\* the outcomes drawn for a handler that writes the three files: every write
\* succeeds, every write fails, the second alone fails
ThreeSaves == {AllSaved, NoneSaved, [AllSaved EXCEPT !.likes = FALSE]}

\* the outcomes of a handler that writes one file only
OneSave(file) == {sv \in SaveOutcomes : \A f \in DOMAIN sv : f # file => sv[f]}

HandleSave ==
    \/ \E cred \in Credentials : Connect(cred)
    \/ \E s \in connectedUsers : Disconnect(s)
    \/ \E s \in connectedUsers, sv \in OneSave("memos") :
          CreateMemo(s, [content |-> <<"hi">>, x |-> Undefined, y |-> Undefined,
                         boardId |-> Undefined], 0, 0, sv)
    \/ \E s \in connectedUsers, id \in MemoIds, sv \in ThreeSaves : DeleteMemo(s, id, sv)
    \/ \E s \in connectedUsers, sv \in {AllSaved, NoneSaved} :
          AdminClearAllMemos(s, Undefined, sv)
    \/ \E s \in connectedUsers, id \in MemoIds, sv \in OneSave("likes") :
          LikeMemo(s, id, sv)
    \/ \E s \in connectedUsers, sv \in OneSave("comments") :
          CommentMemo(s, [memoId |-> MemoIdPool[1], content |-> Str(0, 1, 0)], sv)

SaveEvent ==
    /\ events < MaxEvents
    /\ events' = events + 1
    /\ HandleSave

NextSave == SaveEvent

SpecSave == Init /\ [][NextSave]_vars

(***************************************************************************)
(* The read path: the events that answer with a view of the collections,   *)
(* and the cursor relay, among events that fill the collections.           *)
(***************************************************************************)
Cursors == {<<3, 4>>}

HandleRead ==
    \/ \E cred \in Credentials : Connect(cred)
    \/ \E s \in connectedUsers : Disconnect(s)
    \/ \E s \in connectedUsers, data \in MemoData : CreateMemo(s, data, 0, 0, AllSaved)
    \/ \E s \in connectedUsers, id \in MemoIds : LikeMemo(s, id, AllSaved)
    \/ \E s \in connectedUsers, id \in MemoIds :
          CommentMemo(s, [memoId |-> id, content |-> Str(0, 1, 0)], AllSaved)
    \/ \E s \in connectedUsers, b \in BoardIds : SwitchBoard(s, b)
    \/ \E s \in connectedUsers, id \in MemoIds : GetMemoLikes(s, id)
    \/ \E s \in connectedUsers, id \in MemoIds : GetMemoComments(s, id)
    \/ \E s \in connectedUsers, c \in Cursors : CursorMove(s, c[1], c[2])

ReadEvent ==
    /\ events < MaxEvents
    /\ events' = events + 1
    /\ HandleRead

NextRead == ReadEvent

SpecRead == Init /\ [][NextRead]_vars

(***************************************************************************)
(* Properties.                                                             *)
(***************************************************************************)
\* the step handles one event of the given name
EventStep(type) == events' = events + 1 /\ lastEvent'.type = type

HasLike(ls, memoId, userId) ==
    \E i \in 1..Len(ls) : ls[i].memoId = memoId /\ ls[i].userId = userId

MemoIdsIn(ms) == {ms[i].id : i \in 1..Len(ms)}

\* C1: in every reachable state the likes array holds at most one Like for
\* each (memoId, userId) pair.
C1_OneLikePerPair ==
    \A i, j \in 1..Len(likes) :
        (likes[i].memoId = likes[j].memoId /\ likes[i].userId = likes[j].userId)
            => i = j

\* an accepted like-memo has just removed the sender's Like (a repeated
\* toggle) while another Like is held
C1_Witness ==
    /\ lastEvent.type = "like-memo"
    /\ Len(outbox) = 1
    /\ outbox[1].ev = "memo-likes"
    /\ ~HasLike(likes, lastEvent.arg, lastEvent.from)
    /\ Len(likes) >= 1

\* the pair's last accepted like-memo is less than 1000ms old
InWindow(s, memoId) ==
    /\ <<s, memoId>> \in DOMAIN accepted
    /\ now - accepted[<<s, memoId>>] < LIKE_DEBOUNCE_TIME

\* C2: a like-memo from S on M less than 1000ms after the last accepted
\* like-memo from S on M is dropped (likes and debounce map unchanged, nothing
\* emitted); a like-memo that arrives when that window has elapsed (or when
\* there was no accepted one) flips the presence of the Like of (M, S).
C2_DebounceWindow ==
    [][EventStep("like-memo") =>
         LET s == lastEvent'.from
             m == lastEvent'.arg
         IN IF InWindow(s, m)
            THEN likes' = likes /\ likeDebounce' = likeDebounce /\ outbox' = <<>>
            ELSE HasLike(likes', m, s) # HasLike(likes, m, s)]_vars

\* the first half of C2 alone: inside the pair's own window the event is dropped
C2_DroppedInWindow ==
    [][EventStep("like-memo") /\ InWindow(lastEvent'.from, lastEvent'.arg) =>
         likes' = likes /\ likeDebounce' = likeDebounce /\ outbox' = <<>>]_vars

\* C3: an admin's delete-board for a board B other than "default" removes
\* exactly the memos whose boardId is B and exactly the likes and comments of
\* those memos, leaves every other board, memo, like and comment as it was,
\* and afterwards no like or comment refers to a removed memo.
C3_DeleteBoardCascade ==
    [][(/\ EventStep("delete-board")
        /\ lastEvent'.from \in adminUsers
        /\ lastEvent'.arg # DEFAULT_BOARD) =>
         LET b == lastEvent'.arg
             removed == {memos[i].id : i \in {j \in 1..Len(memos) : memos[j].boardId = b}}
         IN /\ memos' = SelectSeq(memos, LAMBDA m : m.boardId # b)
            /\ likes' = SelectSeq(likes, LAMBDA l : l.memoId \notin removed)
            /\ comments' = SelectSeq(comments, LAMBDA c : c.memoId \notin removed)
            /\ boards' = SelectSeq(boards, LAMBDA x : x.id # b)
            /\ \A i \in 1..Len(likes') : likes'[i].memoId \notin removed
            /\ \A i \in 1..Len(comments') : comments'[i].memoId \notin removed]_vars

\* delete-board has just removed a memo and a like of it (the files still
\* hold them: delete-board writes no file)
C3_Witness ==
    /\ lastEvent.type = "delete-board"
    /\ lastEvent.from \in adminUsers
    /\ Len(outbox) = 1
    /\ outbox[1].ev = "board-deleted"
    /\ Len(disk.memos) > Len(memos)
    /\ Len(disk.likes) > Len(likes)

\* C4: in every reachable state every Like and every Comment has the memoId
\* of a memo that is in the memos array.
C4_NoDangling ==
    /\ \A i \in 1..Len(likes) : likes[i].memoId \in MemoIdsIn(memos)
    /\ \A i \in 1..Len(comments) : comments[i].memoId \in MemoIdsIn(memos)

PrivilegedEvents == {"create-board", "delete-board", "admin-delete-memo",
                     "admin-clear-all-memos"}

\* C5: a privileged event from a session that is no administrator, and an
\* administrator's delete-board for "default", change none of boards, memos,
\* likes and comments; the sender is sent an error and nothing is sent to any
\* other session.
C5_RefusedWithoutEffect ==
    [][(/\ events' = events + 1
        /\ \/ /\ lastEvent'.type \in PrivilegedEvents
              /\ lastEvent'.from \notin adminUsers
           \/ /\ lastEvent'.type = "delete-board"
              /\ lastEvent'.from \in adminUsers
              /\ lastEvent'.arg = DEFAULT_BOARD) =>
         /\ UNCHANGED <<boards, memos, likes, comments>>
         /\ \E i \in 1..Len(outbox') :
                outbox'[i].ev = "error" /\ lastEvent'.from \in outbox'[i].to
         /\ \A i \in 1..Len(outbox') : outbox'[i].to \subseteq {lastEvent'.from}]_vars

\* a session that is no administrator has just been refused a privileged
\* event while another session is connected and a memo exists
C5_Witness ==
    /\ lastEvent.type \in PrivilegedEvents
    /\ lastEvent.from \notin adminUsers
    /\ Cardinality(connectedUsers) = 2
    /\ Len(memos) > 0
    /\ Len(outbox) = 1
    /\ outbox[1].ev = "error"

\* C6: for every connected session the administrator capability the handlers
\* look up equals the comparison of its connection-time credential with the
\* shared secret, and no step changes the capability or the credential of a
\* session that stays connected.
C6_AdminFixedByCredential ==
    /\ [](/\ adminUsers \subseteq connectedUsers
          /\ DOMAIN handshake = connectedUsers
          /\ \A s \in connectedUsers :
                 (s \in adminUsers) <=> (handshake[s] = <<ADMIN_TOKEN>>))
    /\ [][\A s \in connectedUsers \cap connectedUsers' :
              /\ handshake'[s] = handshake[s]
              /\ (s \in adminUsers') <=> (s \in adminUsers)]_vars

\* an administrator is still one after the other session has disconnected
C6_Witness ==
    /\ lastEvent.type = "disconnect"
    /\ nextSocket = 2
    /\ Cardinality(connectedUsers) = 1
    /\ adminUsers = connectedUsers
    /\ lastEvent.from \notin connectedUsers

\* C7: in every reachable state exactly one board has the id "default".
C7_OneDefaultBoard ==
    Cardinality({i \in 1..Len(boards) : boards[i].id = DEFAULT_BOARD}) = 1

\* an administrator who created a board has just asked to delete "default"
C7_Witness ==
    /\ lastEvent.type = "delete-board"
    /\ lastEvent.arg = DEFAULT_BOARD
    /\ lastEvent.from \in adminUsers
    /\ nextBoard = 1

\* C8: in every reachable state every memo's boardId is the id of a board in
\* the boards array.
C8_MemoBoardExists ==
    \A i \in 1..Len(memos) : \E j \in 1..Len(boards) : boards[j].id = memos[i].boardId

\* the comment-memo of this step was accepted: one comment more is stored
CommentAccepted == Len(comments') = Len(comments) + 1

\* C9: comment-memo with empty or whitespace-only content, or with content
\* longer than 500 characters, changes none of comments, likes and memos and
\* emits one error, to the sender alone; comment-memo with (non-blank)
\* content of exactly 500 characters inserts one comment.
C9_CommentValidation ==
    [][(EventStep("comment-memo") /\ lastEvent'.arg.content.type = "string") =>
         LET c == lastEvent'.arg.content
             s == lastEvent'.from
         IN /\ (c.core = 0 \/ c.pre + c.core + c.post > MaxCommentLength) =>
                  /\ UNCHANGED <<comments, likes, memos>>
                  /\ Len(outbox') = 1
                  /\ outbox'[1].ev = "error"
                  /\ outbox'[1].to = {s}
            /\ (c.core > 0 /\ c.pre + c.core + c.post = MaxCommentLength) =>
                  /\ CommentAccepted
                  /\ outbox'[1].ev = "new-comment"]_vars

\* a comment of 501 characters has just been refused after one of exactly 500
\* characters was stored
C9_Witness ==
    /\ lastEvent.type = "comment-memo"
    /\ lastEvent.arg.content = Str(0, MaxCommentLength + 1, 0)
    /\ Len(outbox) = 1
    /\ outbox[1].ev = "error"
    /\ \E i \in 1..Len(comments) : comments[i].content.core = MaxCommentLength

\* C10 as claimed: comment-memo is accepted exactly when the trimmed content
\* has between 1 and 500 characters (the limit applied to the trimmed text).
C10_LimitOnTrimmed ==
    [][EventStep("comment-memo") =>
         LET c == lastEvent'.arg.content
         IN CommentAccepted <=>
                (c.type = "string" /\ c.core >= 1 /\ c.core <= MaxCommentLength)]_vars

\* C10 as amended: comment-memo is accepted exactly when the content is a
\* string whose trimmed text has at least 1 character and whose untrimmed
\* text has at most 500 characters; an accepted content is stored trimmed, a
\* refused one leaves the comments as they were, and every stored comment
\* has a trimmed content of 1 to 500 characters.
C10_LimitOnRaw ==
    /\ [][EventStep("comment-memo") =>
            LET c == lastEvent'.arg.content
                ok == /\ c.type = "string"
                      /\ c.core >= 1
                      /\ c.pre + c.core + c.post <= MaxCommentLength
            IN IF ok
               THEN comments' = Append(comments,
                                       [memoId |-> lastEvent'.arg.memoId,
                                        userId |-> lastEvent'.from,
                                        content |-> Str(0, c.core, 0)])
               ELSE comments' = comments]_vars
    /\ [](\A i \in 1..Len(comments) :
              /\ comments[i].content.pre = 0
              /\ comments[i].content.post = 0
              /\ comments[i].content.core >= 1
              /\ comments[i].content.core <= MaxCommentLength)

\* a content of 501 characters whose trimmed text has 500 has just been
\* refused, after a content of 500 characters was stored as its 499 trimmed
C10_Witness ==
    /\ lastEvent.type = "comment-memo"
    /\ lastEvent.arg.content = Str(1, MaxCommentLength, 0)
    /\ Len(outbox) = 1
    /\ outbox[1].ev = "error"
    /\ \E i \in 1..Len(comments) : comments[i].content = Str(0, MaxCommentLength - 1, 0)

\* the memo id an event names
NamedMemo(e) ==
    IF e.type \in {"like-memo", "delete-memo", "admin-delete-memo"} THEN e.arg
    ELSE IF e.type = "comment-memo" THEN e.arg.memoId
    ELSE e.arg.id

MemoReferringEvents == {"like-memo", "comment-memo", "update-memo-position",
                        "update-memo-content"}

\* C11: like-memo, comment-memo, update-memo-position and update-memo-content
\* that name a memo id no memo has change none of the collections and emit
\* nothing to any session.
C11_SilentNoOp ==
    [][(/\ events' = events + 1
        /\ ~raised'
        /\ lastEvent'.type \in MemoReferringEvents
        /\ NamedMemo(lastEvent') \notin MemoIdsIn(memos)) =>
         /\ UNCHANGED <<memos, likes, comments, boards>>
         /\ outbox' = <<>>]_vars

\* the part of C11 about the two updates alone
C11_UpdatesSilent ==
    [][(/\ events' = events + 1
        /\ ~raised'
        /\ lastEvent'.type \in {"update-memo-position", "update-memo-content"}
        /\ NamedMemo(lastEvent') \notin MemoIdsIn(memos)) =>
         /\ UNCHANGED <<memos, likes, comments, boards>>
         /\ outbox' = <<>>]_vars

\* C12: when every save succeeds, after every handled event the file of each
\* of the three collections holds the in-memory collection (so a restart
\* that reloads the files restores memos, likes and comments as they were).
C12_SnapshotEqualsMemory ==
    /\ disk.memos = memos
    /\ disk.likes = likes
    /\ disk.comments = comments

\* a write of the event handled in this step failed
SaveFailed == \E i \in 1..Len(saveLog') : ~saveLog'[i].ok

Memory == [memos |-> memos, likes |-> likes, comments |-> comments]

\* C13: when a write fails during an event, each file is written at most
\* once (no second attempt) and a file whose write failed keeps its old
\* contents; no error is sent to any session; the in-memory change of the
\* event is kept and the event's emissions go to every connected session, as
\* they do when the writes succeed.
C13_SaveFailureIgnored ==
    [][(events' = events + 1 /\ SaveFailed) =>
         LET e == lastEvent'
             all == connectedUsers
         IN /\ \A i, j \in 1..Len(saveLog') :
                   saveLog'[i].file = saveLog'[j].file => i = j
            /\ \A i \in 1..Len(saveLog') :
                   disk'[saveLog'[i].file] =
                       IF saveLog'[i].ok THEN Memory'[saveLog'[i].file]
                       ELSE disk[saveLog'[i].file]
            /\ \A f \in DOMAIN disk :
                   (\A i \in 1..Len(saveLog') : saveLog'[i].file # f) => disk'[f] = disk[f]
            /\ \A i \in 1..Len(outbox') : outbox'[i].ev # "error"
            /\ e.type \in {"create-memo", "delete-memo", "admin-clear-all-memos",
                            "like-memo", "comment-memo"}
            /\ e.type = "create-memo" =>
                   /\ Len(memos') = Len(memos) + 1
                   /\ outbox' = << Emit(all, "new-memo", memos'[Len(memos')]) >>
            /\ e.type = "delete-memo" =>
                   /\ memos' = SelectSeq(memos, LAMBDA m : m.id # e.arg)
                   /\ likes' = SelectSeq(likes, LAMBDA l : l.memoId # e.arg)
                   /\ comments' = SelectSeq(comments, LAMBDA c : c.memoId # e.arg)
                   /\ outbox' = << Emit(all, "memo-deleted", e.arg) >>
            /\ e.type = "admin-clear-all-memos" =>
                   /\ memos' = <<>> /\ likes' = <<>> /\ comments' = <<>>
                   /\ outbox' = << Emit(all, "all-memos", <<>>) >>
            /\ e.type = "like-memo" =>
                   /\ HasLike(likes', e.arg, e.from) # HasLike(likes, e.arg, e.from)
                   /\ outbox'[Len(outbox')].ev = "memo-likes"
                   /\ \A i \in 1..Len(outbox') : outbox'[i].to = all
            /\ e.type = "comment-memo" =>
                   /\ Len(comments') = Len(comments) + 1
                   /\ Len(outbox') = 2
                   /\ outbox'[1] = Emit(all, "new-comment", comments'[Len(comments')])
                   /\ outbox'[2].ev = "memo-comments"
                   /\ outbox'[2].to = all]_vars

\* delete-memo has just removed a memo and a like of it while another session
\* was connected; the write of the likes failed, and the file still holds
\* the like
C13_Witness ==
    /\ lastEvent.type = "delete-memo"
    /\ saveLog = << [file |-> "memos", ok |-> TRUE], [file |-> "likes", ok |-> FALSE],
                    [file |-> "comments", ok |-> TRUE] >>
    /\ Cardinality(connectedUsers) = 2
    /\ outbox = << Emit(connectedUsers, "memo-deleted", lastEvent.arg) >>
    /\ disk.memos = memos
    /\ Len(disk.likes) > Len(likes)

\* C14: for every event type and every payload, an absent payload and a
\* payload with missing fields included, the handler runs to completion: no
\* handler ever raises an error.
C14_NeverThrows == ~raised

\* C15: the registry is changed before the broadcast.  Every user-count
\* event carries the number of sessions registered when it is emitted; on
\* connect that number counts the new session, which is sent it too; on
\* disconnect the departed session is no longer counted and the remaining
\* sessions are sent the count and then the disconnect notice of the
\* departed session id.
C15_RegistryBeforeBroadcast ==
    [][events' = events + 1 =>
         LET e == lastEvent'
         IN /\ \A i \in 1..Len(outbox') :
                   outbox'[i].ev = "user-count" =>
                       outbox'[i].arg = Cardinality(connectedUsers')
            /\ e.type = "connect" =>
                   /\ connectedUsers' = connectedUsers \cup {e.from}
                   /\ e.from \notin connectedUsers
                   /\ \E i \in 1..Len(outbox') :
                          outbox'[i] = Emit(connectedUsers', "user-count",
                                            Cardinality(connectedUsers) + 1)
            /\ e.type = "disconnect" =>
                   /\ connectedUsers' = connectedUsers \ {e.from}
                   /\ e.from \in connectedUsers
                   /\ outbox' = << Emit(connectedUsers', "user-count",
                                        Cardinality(connectedUsers) - 1),
                                   Emit(connectedUsers', "user-disconnected", e.from) >>]_vars

\* one of two sessions has just disconnected: the other one is sent the
\* count 1 and then the notice
C15_Witness ==
    /\ lastEvent.type = "disconnect"
    /\ Cardinality(connectedUsers) = 1
    /\ lastEvent.from \notin connectedUsers
    /\ outbox = << Emit(connectedUsers, "user-count", 1),
                   Emit(connectedUsers, "user-disconnected", lastEvent.from) >>

\* C16: after an administrator's admin-clear-all-memos without a boardId the
\* memos, likes and comments are all empty, the boards are as they were, and
\* every connected session is sent all-memos with the empty list.
C16_ClearAll ==
    [][(/\ EventStep("admin-clear-all-memos")
        /\ lastEvent'.from \in adminUsers
        /\ lastEvent'.arg = Undefined) =>
         /\ memos' = <<>>
         /\ likes' = <<>>
         /\ comments' = <<>>
         /\ boards' = boards
         /\ outbox' = << Emit(connectedUsers, "all-memos", <<>>) >>]_vars

\* an administrator has just cleared everything, with another session
\* connected, after a memo was created and a like-memo accepted
C16_Witness ==
    /\ lastEvent.type = "admin-clear-all-memos"
    /\ lastEvent.arg = Undefined
    /\ lastEvent.from \in adminUsers
    /\ Cardinality(connectedUsers) = 2
    /\ nextMemo >= 1
    /\ DOMAIN likeDebounce # {}
    /\ memos = <<>> /\ likes = <<>> /\ comments = <<>>
    /\ outbox = << Emit(connectedUsers, "all-memos", <<>>) >>

\* the Likes of the other (memoId, userId) pairs, in order
OtherLikes(ls, memoId, userId) ==
    SelectSeq(ls, LAMBDA l : ~(l.memoId = memoId /\ l.userId = userId))

\* C17: an accepted like-memo of a pair that holds no Like appends one Like
\* and emits new-like and then the memo's like list to all sessions; the
\* next accepted like-memo of the pair removes exactly that Like, emits no
\* new-like and emits to all sessions the memo's like list, which does not
\* contain it: the likes are again what they were before the first.  The
\* Likes of the other pairs are unchanged by both.
C17_LikeRoundTrip ==
    [][(EventStep("like-memo") /\ outbox' # <<>>) =>
         LET s == lastEvent'.from
             m == lastEvent'.arg
             all == connectedUsers
             like == [memoId |-> m, userId |-> s]
             list == SelectSeq(likes', LAMBDA l : l.memoId = m)
         IN /\ OtherLikes(likes', m, s) = OtherLikes(likes, m, s)
            /\ IF ~HasLike(likes, m, s)
               THEN /\ likes' = Append(likes, like)
                    /\ OtherLikes(likes', m, s) = likes
                    /\ outbox' = << Emit(all, "new-like", like),
                                    Emit(all, "memo-likes", [memoId |-> m, list |-> list]) >>
               ELSE /\ likes' = OtherLikes(likes, m, s)
                    /\ ~HasLike(likes', m, s)
                    /\ outbox' = << Emit(all, "memo-likes", [memoId |-> m, list |-> list]) >>
                    /\ \A i \in 1..Len(list) : list[i].userId # s]_vars

\* the second like-memo of a pair has just been accepted, 1000ms after the
\* first: its Like is gone, the Like of another session on the same memo is
\* still there and is in the list sent to both sessions
C17_Witness ==
    /\ lastEvent.type = "like-memo"
    /\ now - StartTime >= LIKE_DEBOUNCE_TIME
    /\ <<lastEvent.from, lastEvent.arg>> \in DOMAIN accepted
    /\ accepted[<<lastEvent.from, lastEvent.arg>>] = now
    /\ ~HasLike(likes, lastEvent.arg, lastEvent.from)
    /\ Cardinality(connectedUsers) = 2
    /\ Len(outbox) = 1
    /\ outbox[1].ev = "memo-likes"
    /\ outbox[1].to = connectedUsers
    /\ Len(outbox[1].arg.list) = 1
    /\ outbox[1].arg.list = likes

\* C18: create-memo without a boardId and without a position appends exactly
\* one memo, with boardId "default", x in [0, 800), y in [0, 600) and
\* createdBy the sender, changes nothing else, and emits new-memo with that
\* memo to all sessions, the sender included.
C18_CreateMemoDefaults ==
    [][(/\ EventStep("create-memo")
        /\ ~raised'
        /\ lastEvent'.arg.boardId = Undefined
        /\ lastEvent'.arg.x = Undefined
        /\ lastEvent'.arg.y = Undefined) =>
         LET s == lastEvent'.from
             new == memos'[Len(memos')]
         IN /\ Len(memos') = Len(memos) + 1
            /\ memos' = Append(memos, new)
            /\ new.id \notin MemoIdsIn(memos)
            /\ new.boardId = DEFAULT_BOARD
            /\ new.x >= 0 /\ new.x < CanvasWidth
            /\ new.y >= 0 /\ new.y < CanvasHeight
            /\ new.createdBy = s
            /\ UNCHANGED <<likes, comments, boards>>
            /\ s \in connectedUsers
            /\ outbox' = << Emit(connectedUsers, "new-memo", new) >>]_vars

\* a memo has just been created without board and position while two
\* sessions are connected: it lies on the right edge of the canvas
C18_Witness ==
    /\ lastEvent.type = "create-memo"
    /\ ~raised
    /\ lastEvent.arg.x = Undefined
    /\ lastEvent.arg.boardId = Undefined
    /\ Cardinality(connectedUsers) = 2
    /\ Len(memos) >= 1
    /\ memos[Len(memos)].x = CanvasWidth - 1
    /\ memos[Len(memos)].boardId = DEFAULT_BOARD
    /\ memos[Len(memos)].createdBy = lastEvent.from
    /\ outbox = << Emit(connectedUsers, "new-memo", memos[Len(memos)]) >>

\* C19: the debouncer looks only at the time of the last accepted like-memo
\* of the same (session, memo) pair.  A like-memo less than 1000ms after it
\* is suppressed and leaves the timestamp as it was; a like-memo 1000ms or
\* more after it (or the first of the pair) is accepted, toggles the Like
\* and sets the timestamp to the time of the event, whether it added or
\* removed the Like.
C19_OwnPairWindow ==
    [][EventStep("like-memo") =>
         LET s == lastEvent'.from
             m == lastEvent'.arg
             key == DebounceKey(s, m)
         IN IF InWindow(s, m)
            THEN UNCHANGED <<likes, likeDebounce>>
            ELSE /\ HasLike(likes', m, s) # HasLike(likes, m, s)
                 /\ key \in DOMAIN likeDebounce'
                 /\ likeDebounce'[key] = now]_vars

\* what holds instead: the window is that of the last accepted like-memo
\* with the same key string, whichever pair sent it
C19_KeyWindow ==
    [][EventStep("like-memo") =>
         LET s == lastEvent'.from
             m == lastEvent'.arg
             key == DebounceKey(s, m)
         IN IF key \in DOMAIN likeDebounce /\ now - likeDebounce[key] < LIKE_DEBOUNCE_TIME
            THEN UNCHANGED <<likes, likeDebounce>>
            ELSE /\ HasLike(likes', m, s) # HasLike(likes, m, s)
                 /\ likeDebounce' = [k \in DOMAIN likeDebounce \cup {key} |->
                                        IF k = key THEN now ELSE likeDebounce[k]]]_vars

\* the step handles a delete-memo, or an administrator's admin-delete-memo
MemoDeletionStep ==
    \/ EventStep("delete-memo")
    \/ EventStep("admin-delete-memo") /\ lastEvent'.from \in adminUsers

\* C20: delete-memo from any session and admin-delete-memo from an
\* administrator remove the memo with the given id and exactly the likes and
\* comments with that memoId, leave every other memo, like and comment and
\* the boards as they were, and emit memo-deleted to all sessions with the
\* likes and comments already removed; when no memo has the id, memos, likes
\* and comments are unchanged and memo-deleted is emitted all the same.
C20_DeleteMemoCascade ==
    [][MemoDeletionStep =>
         LET id == lastEvent'.arg
         IN /\ memos' = SelectSeq(memos, LAMBDA m : m.id # id)
            /\ likes' = SelectSeq(likes, LAMBDA l : l.memoId # id)
            /\ comments' = SelectSeq(comments, LAMBDA c : c.memoId # id)
            /\ boards' = boards
            /\ outbox' = << Emit(connectedUsers, "memo-deleted", id) >>
            /\ id \notin MemoIdsIn(memos) => UNCHANGED <<memos, likes, comments>>]_vars

\* C20 without its last clause
C20_DeleteMemoFilters ==
    [][MemoDeletionStep =>
         LET id == lastEvent'.arg
         IN /\ memos' = SelectSeq(memos, LAMBDA m : m.id # id)
            /\ likes' = SelectSeq(likes, LAMBDA l : l.memoId # id)
            /\ comments' = SelectSeq(comments, LAMBDA c : c.memoId # id)
            /\ boards' = boards
            /\ outbox' = << Emit(connectedUsers, "memo-deleted", id) >>]_vars

\* C21: update-memo-position (update-memo-content) for a memo that exists,
\* from any session, changes only the x and y (the content) of that one
\* memo: its id, boardId and createdBy, every other memo and the likes,
\* comments and boards stay as they were; the update is emitted to every
\* connected session except the sender, and nothing is sent to the sender.
C21_UpdateInPlace ==
    [][(/\ events' = events + 1
        /\ ~raised'
        /\ lastEvent'.type \in {"update-memo-position", "update-memo-content"}
        /\ lastEvent'.arg.id \in MemoIdsIn(memos)) =>
         LET e == lastEvent'
             s == e.from
             i == CHOOSE k \in 1..Len(memos) : memos[k].id = e.arg.id
         IN /\ Len(memos') = Len(memos)
            /\ \A j \in 1..Len(memos) : j # i => memos'[j] = memos[j]
            /\ memos'[i].id = memos[i].id
            /\ memos'[i].boardId = memos[i].boardId
            /\ memos'[i].createdBy = memos[i].createdBy
            /\ IF e.type = "update-memo-position"
               THEN /\ memos'[i].x = e.arg.x
                    /\ memos'[i].y = e.arg.y
                    /\ memos'[i].content = memos[i].content
                    /\ outbox' = << Emit(connectedUsers \ {s}, "memo-position-updated",
                                         [id |-> e.arg.id, x |-> e.arg.x, y |-> e.arg.y]) >>
               ELSE /\ memos'[i].content = e.arg.content
                    /\ memos'[i].x = memos[i].x
                    /\ memos'[i].y = memos[i].y
                    /\ outbox' = << Emit(connectedUsers \ {s}, "memo-content-updated",
                                         [id |-> e.arg.id, content |-> e.arg.content]) >>
            /\ UNCHANGED <<likes, comments, boards>>
            /\ \A k \in 1..Len(outbox') : s \notin outbox'[k].to]_vars

\* a session has just moved the second of two memos, which another session
\* created: the first memo is where it was and the other session alone is
\* sent the update
C21_Witness ==
    /\ lastEvent.type = "update-memo-position"
    /\ ~raised
    /\ Cardinality(connectedUsers) = 2
    /\ Len(memos) = 2
    /\ memos[2].id = lastEvent.arg.id
    /\ memos[2].createdBy # lastEvent.from
    /\ memos[2].x = lastEvent.arg.x
    /\ memos[1].x # lastEvent.arg.x
    /\ Len(outbox) = 1
    /\ outbox[1].to = connectedUsers \ {lastEvent.from}

\* C22: an administrator's admin-clear-all-memos with a boardId B removes
\* exactly the memos whose boardId is B and exactly the likes and comments of
\* those memos; board B, the other boards and every other memo, like and
\* comment remain, and every connected session is sent all-memos with the
\* whole remaining memo collection, of all boards.
C22_ClearBoard ==
    [][(/\ EventStep("admin-clear-all-memos")
        /\ lastEvent'.from \in adminUsers
        /\ lastEvent'.arg # Undefined) =>
         LET b == lastEvent'.arg[1]
             removed == {memos[i].id : i \in {j \in 1..Len(memos) : memos[j].boardId = b}}
         IN /\ memos' = SelectSeq(memos, LAMBDA m : m.boardId # b)
            /\ likes' = SelectSeq(likes, LAMBDA l : l.memoId \notin removed)
            /\ comments' = SelectSeq(comments, LAMBDA c : c.memoId \notin removed)
            /\ boards' = boards
            /\ outbox' = << Emit(connectedUsers, "all-memos", memos') >>]_vars

\* an administrator has just cleared one board of its memo while a memo of
\* another board remains and is in the list sent to the sessions
C22_Witness ==
    /\ lastEvent.type = "admin-clear-all-memos"
    /\ lastEvent.from \in adminUsers
    /\ lastEvent.arg # Undefined
    /\ nextMemo = 2
    /\ Len(memos) = 1
    /\ memos[1].boardId # lastEvent.arg[1]
    /\ \E i \in 1..Len(boards) : boards[i].id = lastEvent.arg[1]
    /\ outbox = << Emit(connectedUsers, "all-memos", memos) >>

ReadEvents == {"switch-board", "get-memo-likes", "get-memo-comments", "cursor-move"}

\* C23: switch-board, get-memo-likes, get-memo-comments and cursor-move leave
\* the sessions, the admin set, boards, memos, likes, comments and the
\* debounce map unchanged.  switch-board emits to the sender alone the memos
\* whose boardId is the requested board, get-memo-likes (get-memo-comments)
\* emits to the sender alone the likes (comments) whose memoId is the
\* requested memo, and cursor-move emits only to the sessions other than the
\* sender.
C23_ReadsChangeNothing ==
    [][(events' = events + 1 /\ lastEvent'.type \in ReadEvents) =>
         LET e == lastEvent'
             s == e.from
         IN /\ UNCHANGED <<connectedUsers, adminUsers, boards, memos, likes, comments,
                            likeDebounce>>
            /\ e.type = "switch-board" =>
                   outbox' = << Emit({s}, "all-memos",
                                     SelectSeq(memos, LAMBDA m : m.boardId = e.arg)) >>
            /\ e.type = "get-memo-likes" =>
                   outbox' = << Emit({s}, "memo-likes",
                                     [memoId |-> e.arg,
                                      list |-> SelectSeq(likes, LAMBDA l : l.memoId = e.arg)]) >>
            /\ e.type = "get-memo-comments" =>
                   outbox' = << Emit({s}, "memo-comments",
                                     [memoId |-> e.arg,
                                      list |-> SelectSeq(comments,
                                                         LAMBDA c : c.memoId = e.arg)]) >>
            /\ e.type = "cursor-move" =>
                   outbox' = << Emit(connectedUsers \ {s}, "user-cursor",
                                     [userId |-> s, x |-> e.arg.x, y |-> e.arg.y]) >>]_vars

\* a session has just asked for the likes of a memo and is sent the one like
\* of it, not the like of the other memo, while another session is connected
C23_Witness ==
    /\ lastEvent.type = "get-memo-likes"
    /\ Cardinality(connectedUsers) = 2
    /\ Len(likes) = 2
    /\ Len(outbox) = 1
    /\ outbox[1].to = {lastEvent.from}
    /\ Len(outbox[1].arg.list) = 1
    /\ outbox[1].arg.list[1].memoId = lastEvent.arg

\* C24: the debounce state of one (session, memo) pair never suppresses a
\* like-memo of another pair, whatever the session ids and memo ids are
\* (ids with the character '-' included): a like-memo is dropped only when
\* an accepted like-memo of its own pair is less than 1000ms old.
C24_NoCrossPairSuppression ==
    [][(/\ EventStep("like-memo")
        /\ outbox' = <<>>
        /\ likes' = likes) =>
         InWindow(lastEvent'.from, lastEvent'.arg)]_vars

\* C25: create-memo that supplies a position stores exactly the supplied x
\* and y in the new memo, for every supplied value, 0 included; the random
\* default is used only for a coordinate that is omitted.
C25_SuppliedPositionStored ==
    [][(EventStep("create-memo") /\ ~raised') =>
         LET d == lastEvent'.arg
             new == memos'[Len(memos')]
         IN /\ Len(memos') = Len(memos) + 1
            /\ d.x # Undefined => new.x = d.x[1]
            /\ d.y # Undefined => new.y = d.y[1]]_vars

\* what holds instead: a supplied coordinate other than 0 is stored as it is
C25_NonZeroPositionStored ==
    [][(EventStep("create-memo") /\ ~raised') =>
         LET d == lastEvent'.arg
             new == memos'[Len(memos')]
         IN /\ Len(memos') = Len(memos) + 1
            /\ (d.x # Undefined /\ d.x[1] # 0) => new.x = d.x[1]
            /\ (d.y # Undefined /\ d.y[1] # 0) => new.y = d.y[1]]_vars

====
